---- MODULE Spec2Model ----
(***************************************************************************)
(* A model of app.py of the AOV strategy assistant: the hero dataset kept  *)
(* in st.session_state.data, the JSON file behind it, the record           *)
(* normalizers, the relationship reconciler and the button handlers that   *)
(* mutate, reconcile and save.                                             *)
(*                                                                         *)
(* Python values are modelled by shape.  A JSON value that the code reads  *)
(* as a list is a record [kind, items]:                                    *)
(*   kind = "absent"  the key is missing from the mapping                  *)
(*   kind = "list"    a JSON array, items holds its elements in order      *)
(*   kind = "null"    JSON null (None)                                     *)
(*   kind = "scalar"  a non-zero JSON number (truthy, not iterable)        *)
(* Hero names are strings; "" is a legal JSON key and so a legal name of a *)
(* stored record.  Lane names are transliterated from LANE_CHOICES.        *)
(***************************************************************************)
EXTENDS Integers, Sequences, FiniteSets, TLC

VARIABLES
    data,      \* st.session_state.data: the in-memory dataset
    file,      \* aov_heroes.json on disk
    pc,        \* which part of the script ran last, or "down": no process, no session
    pre,       \* the dataset the last handler gave to ensure_bidirectional_relationships ({} when it called none)
    changes,   \* the number that call returned (0 when there was none)
    err,       \* how the last handler ended: "none", a reported error, or "exception" (uncaught)
    deleted,   \* the hero the delete handler removed last, until the dataset is replaced
    arg        \* what the user gave the last handler: a name, a lane, a list of names

vars == <<data, file, pc, pre, changes, err, deleted, arg>>

---------------------------------------------------------------------------
(* Bounds of the model. *)

\* the largest number of relationship entries in one raw hero collection
MaxEntries == 2

\* hero keys of the raw collections; "" is a key JSON allows
HeroKeys == {"A", "B", ""}

\* a name that is never the key of a record: a dangling reference
Dangling == "Z"

Names == HeroKeys \cup {Dangling}

\* a fixed enumeration of the names, used only to put sets in a canonical order
NameIndex == [n \in Names |-> CASE n = "" -> 0 [] n = "A" -> 1 [] n = "B" -> 2 [] OTHER -> 3]

---------------------------------------------------------------------------
(* Program constants. *)

LANE_CHOICES == <<"caesar", "mid", "jungle", "dragon", "roam">>

RelKeys == <<"counters", "countered_by", "ban_targets", "synergy">>

\* a lane tag outside LANE_CHOICES, as a hand-edited file may hold
UnknownLane == "top"

LaneKeys == {LANE_CHOICES[i] : i \in DOMAIN LANE_CHOICES} \cup {UnknownLane}

\* marks a lane that has no entry in a lane_tiers mapping
NoKey == "<none>"

---------------------------------------------------------------------------
(* Sequence helpers: Python's list operations. *)

Range(s) == {s[i] : i \in DOMAIN s}

\* x in xs
Contains(xs, x) == \E i \in DOMAIN xs : xs[i] = x

\* dedupe: first occurrences, in order; falsy elements ("") are dropped
RECURSIVE dedupeFrom(_, _)
dedupeFrom(xs, seen) ==
    IF xs = <<>> THEN <<>>
    ELSE LET x == Head(xs) IN
         IF x # "" /\ x \notin seen
         THEN <<x>> \o dedupeFrom(Tail(xs), seen \cup {x})
         ELSE dedupeFrom(Tail(xs), seen)

dedupe(xs) == dedupeFrom(xs, {})

\* sorted(xs) for a list without duplicates, by NameIndex
RECURSIVE sorted(_)
sorted(xs) ==
    IF xs = <<>> THEN <<>>
    ELSE LET m == CHOOSE x \in Range(xs) : \A y \in Range(xs) : NameIndex[x] <= NameIndex[y]
         IN <<m>> \o sorted(SelectSeq(xs, LAMBDA y : y # m))

---------------------------------------------------------------------------
(* Values. *)

Absent == [kind |-> "absent", items |-> <<>>]

List(xs) == [kind |-> "list", items |-> xs]

\* h.get(key, []) of a list-valued key, when list() accepts it
ItemsOf(v) == IF v.kind = "list" THEN v.items ELSE <<>>

\* list(v) raises TypeError
NotIterable(v) == v.kind \in {"null", "scalar"}

NoTiers == [l \in LaneKeys |-> NoKey]

\* a hero record none of whose keys is present: {}
EmptyHero ==
    [shape |-> "dict",
     counters |-> Absent, countered_by |-> Absent,
     ban_targets |-> Absent, synergy |-> Absent,
     lanes |-> Absent, main_lane |-> "",
     lane_tiers |-> [kind |-> "absent", map |-> NoTiers]]

---------------------------------------------------------------------------
(* ensure_fields *)

\* ensure_fields(h) raises: h has no .get, lane_tiers is truthy and has no
\* .setdefault, or list() is given None or a number
ensure_fields_raises(h) ==
    \/ h.shape # "dict"
    \/ h.lane_tiers.kind = "scalar"
    \/ NotIterable(h.lanes)
    \/ \E i \in DOMAIN RelKeys : NotIterable(h[RelKeys[i]])

\* the lane_tiers mapping ensure_fields returns: the record's own (or {}),
\* with every lane of LANE_CHOICES defaulted to ""
ensure_lane_tiers(h) ==
    LET base == IF h.lane_tiers.kind = "dict" THEN h.lane_tiers.map ELSE NoTiers
    IN [l \in LaneKeys |->
          IF base[l] = NoKey /\ Contains(LANE_CHOICES, l) THEN "" ELSE base[l]]

ensure_main_lane(h) ==
    LET lanes_list == ItemsOf(h.lanes) IN
    IF h.main_lane = "" /\ lanes_list # <<>>
    THEN IF Contains(LANE_CHOICES, lanes_list[1]) THEN lanes_list[1] ELSE ""
    ELSE h.main_lane

\* what a call ensure_fields(h) leaves in h itself, whether it returns or
\* raises later: lines 130-132 fill a non-empty lane_tiers mapping in place
\* (an empty one is replaced by a fresh {} first)
ensure_fields_touch(h) ==
    IF /\ h.shape = "dict"
       /\ h.lane_tiers.kind = "dict"
       /\ \E l \in LaneKeys : h.lane_tiers.map[l] # NoKey
    THEN [h EXCEPT !.lane_tiers.map = ensure_lane_tiers(h)]
    ELSE h

\* the record ensure_fields(h) returns when it does not raise
ensure_fields(h) ==
    [shape |-> "dict",
     counters |-> List(ItemsOf(h.counters)),
     countered_by |-> List(ItemsOf(h.countered_by)),
     ban_targets |-> List(ItemsOf(h.ban_targets)),
     synergy |-> List(ItemsOf(h.synergy)),
     lanes |-> List(ItemsOf(h.lanes)),
     main_lane |-> ensure_main_lane(h),
     lane_tiers |-> [kind |-> "dict", map |-> ensure_lane_tiers(h)]]

---------------------------------------------------------------------------
(* _normalize_comp_entry *)

CompNames == {"c1", "c2"}

\* no entry under this composition name
NoComp == [shape |-> "none", members |-> Absent, core |-> "", counters |-> Absent]

\* {"members": [], "core": "", "counters": []}
EmptyComp == [shape |-> "dict", members |-> List(<<>>), core |-> "", counters |-> List(<<>>)]

\* entry.get(key, []) or []: a missing key, null and [] all give []
OrEmpty(v) == IF v.kind = "list" THEN v.items ELSE <<>>

\* _normalize_comp_entry(entry) raises: a dict entry whose members or counters
\* is a number, which the comprehension cannot iterate
_normalize_comp_entry_raises(entry) ==
    /\ entry.shape = "dict"
    /\ (entry.members.kind = "scalar" \/ entry.counters.kind = "scalar")

\* the entry _normalize_comp_entry(entry) returns when it does not raise
_normalize_comp_entry(entry) ==
    CASE entry.shape = "list" ->
           [shape |-> "dict", members |-> List(sorted(dedupe(entry.members.items))),
            core |-> "", counters |-> List(<<>>)]
      [] entry.shape = "dict" ->
           [shape |-> "dict", members |-> List(sorted(dedupe(OrEmpty(entry.members)))),
            core |-> entry.core,
            counters |-> List(sorted(dedupe(OrEmpty(entry.counters))))]
      [] OTHER -> EmptyComp

---------------------------------------------------------------------------
(* The dataset: the dict behind st.session_state.data and the JSON file.   *)
(*   order  the hero keys (keys not starting with "__") in insertion order *)
(*   rec    the record stored under each hero key                          *)
(*   comps  the value under "__compositions__"                             *)
(*   bans   the value under "__ban_list__"                                 *)
(*   lane_bans  the value under "__lane_bans__"                            *)

NoComps == [kind |-> "absent", ent |-> [c \in CompNames |-> NoComp]]

\* no "__lane_bans__" key
NoLaneBans == [kind |-> "absent", map |-> [l \in LaneKeys |-> Absent]]

EmptyData ==
    [order |-> <<>>, rec |-> <<>>, comps |-> NoComps, bans |-> Absent, lane_bans |-> NoLaneBans]

\* the position of hero key k in the dict
IndexOf(order, k) == CHOOSE i \in DOMAIN order : order[i] = k

\* del d[k] for a hero key
DelKey(d, k) ==
    [d EXCEPT !.order = SelectSeq(d.order, LAMBDA x : x # k),
              !.rec = [x \in DOMAIN d.rec \ {k} |-> d.rec[x]]]

\* d[k] = h: a new key goes last, an existing key keeps its place
SetKey(d, k, h) ==
    [d EXCEPT !.order = IF Contains(d.order, k) THEN d.order ELSE Append(d.order, k),
              !.rec = [x \in DOMAIN d.rec \cup {k} |-> IF x = k THEN h ELSE d.rec[x]]]

---------------------------------------------------------------------------
(* get_compositions / set_compositions *)

\* get_compositions(d) raises: some stored entry makes the normalizer raise
get_compositions_raises(d) ==
    /\ d.comps.kind = "dict"
    /\ \E c \in CompNames : _normalize_comp_entry_raises(d.comps.ent[c])

\* get_compositions(d): {} unless "__compositions__" holds a dict; every
\* entry normalized
get_compositions(d) ==
    [c \in CompNames |->
       IF d.comps.kind = "dict" /\ d.comps.ent[c].shape # "none"
       THEN _normalize_comp_entry(d.comps.ent[c])
       ELSE NoComp]

\* set_compositions(d, comps): d["__compositions__"] = the normalized entries
set_compositions(d, comps) ==
    [d EXCEPT !.comps =
       [kind |-> "dict",
        ent |-> [c \in CompNames |->
                   IF comps[c].shape = "none" THEN NoComp
                   ELSE _normalize_comp_entry(comps[c])]]]

---------------------------------------------------------------------------
(* The ban lists. *)

\* get_global_bans(d): the stored list, [] when the value is no list
get_global_bans(d) == IF d.bans.kind = "list" THEN d.bans.items ELSE <<>>

\* set_global_bans that adds the names to those stored
set_global_bans_Merges(d, bans) ==
    [d EXCEPT !.bans = List(sorted(dedupe(get_global_bans(d) \o bans)))]

\* set_global_bans(d, bans)
set_global_bans(d, bans) ==
    [d EXCEPT !.bans = List(sorted(dedupe(SelectSeq(bans, LAMBDA b : b # ""))))]

\* get_lane_bans(d) raises: a lane of the stored mapping holds null or a number
get_lane_bans_raises(d) ==
    /\ d.lane_bans.kind = "dict"
    /\ \E i \in DOMAIN LANE_CHOICES : NotIterable(d.lane_bans.map[LANE_CHOICES[i]])

\* get_lane_bans(d): the stored list of every lane of LANE_CHOICES, [] for a
\* lane without one and for all lanes when the value is no mapping
get_lane_bans(d) ==
    [l \in Range(LANE_CHOICES) |->
       IF d.lane_bans.kind = "dict" THEN ItemsOf(d.lane_bans.map[l]) ELSE <<>>]

\* set_lane_bans(d, lane_bans): the lanes of LANE_CHOICES and no other key
set_lane_bans(d, lane_bans) ==
    [d EXCEPT !.lane_bans =
       [kind |-> "dict",
        map |-> [l \in LaneKeys |->
                   IF Contains(LANE_CHOICES, l)
                   THEN List(sorted(dedupe(SelectSeq(lane_bans[l], LAMBDA x : x # ""))))
                   ELSE Absent]]]

---------------------------------------------------------------------------
(* ensure_bidirectional_relationships *)

\* the position in order of the first record ensure_fields raises on, or 0
FirstBad(order, rec) ==
    IF \E i \in DOMAIN order : ensure_fields_raises(rec[order[i]])
    THEN CHOOSE i \in DOMAIN order :
           /\ ensure_fields_raises(rec[order[i]])
           /\ \A j \in 1..(i - 1) : ~ensure_fields_raises(rec[order[j]])
    ELSE 0

\* lines 152-155: data[k] = ensure_fields(v) for the records before position
\* n; the record at position n is the one ensure_fields raised on
NormalizeBefore(d, n) ==
    [d EXCEPT !.rec = [k \in DOMAIN d.rec |->
        CASE IndexOf(d.order, k) < n -> ensure_fields(d.rec[k])
          [] IndexOf(d.order, k) = n -> ensure_fields_touch(d.rec[k])
          [] OTHER -> d.rec[k]]]

\* KeepList without the test x != name
KeepList_KeepsSelf(xs, names, name) ==
    dedupe(SelectSeq(xs, LAMBDA x : x \in names))

\* lines 163-164: the entries of one field that survive the drop pass
KeepList(xs, names, name) ==
    dedupe(SelectSeq(xs, LAMBDA x : x \in names /\ x # name))

\* line 165: one change for a field whose length changed
DropCount(xs, names, name) ==
    IF Len(KeepList(xs, names, name)) # Len(xs) THEN 1 ELSE 0

\* lines 158-165 for one hero
DropHero(h, names, name) ==
    [h EXCEPT !.counters = List(KeepList(@.items, names, name)),
              !.countered_by = List(KeepList(@.items, names, name)),
              !.ban_targets = List(KeepList(@.items, names, name)),
              !.synergy = List(KeepList(@.items, names, name))]

DropHeroCount(h, names, name) ==
    DropCount(h.counters.items, names, name) + DropCount(h.countered_by.items, names, name)
    + DropCount(h.ban_targets.items, names, name) + DropCount(h.synergy.items, names, name)

RECURSIVE SumOver(_, _)
SumOver(f, S) ==
    IF S = {} THEN 0 ELSE LET x == CHOOSE y \in S : TRUE IN f[x] + SumOver(f, S \ {x})

\* lines 156-165: the drop pass over a normalized collection
DropPass(rec) ==
    LET names == DOMAIN rec IN
    [rec |-> [k \in names |-> DropHero(rec[k], names, k)],
     changes |-> SumOver([k \in names |-> DropHeroCount(rec[k], names, k)], names)]

\* MirrorList without the test a not in data[b][to]
RECURSIVE MirrorList_AlwaysAppends(_, _, _, _)
MirrorList_AlwaysAppends(st, a, bs, to) ==
    IF bs = <<>> THEN st
    ELSE LET b == Head(bs) IN
         IF b \in DOMAIN st.rec
         THEN MirrorList_AlwaysAppends(
                  [rec |-> [st.rec EXCEPT ![b][to] =
                              List(dedupe(Append(st.rec[b][to].items, a)))],
                   changes |-> st.changes + 1],
                  a, Tail(bs), to)
         ELSE MirrorList_AlwaysAppends(st, a, Tail(bs), to)

\* lines 170-174 (from = "counters", to = "countered_by") and lines 175-179
\* (from = "countered_by", to = "counters"): for b in ha[from], append a to
\* data[b][to] unless it is there, dedupe, count
RECURSIVE MirrorList(_, _, _, _)
MirrorList(st, a, bs, to) ==
    IF bs = <<>> THEN st
    ELSE LET b == Head(bs) IN
         IF b \in DOMAIN st.rec /\ ~Contains(st.rec[b][to].items, a)
         THEN MirrorList([rec |-> [st.rec EXCEPT ![b][to] =
                                     List(dedupe(Append(st.rec[b][to].items, a)))],
                          changes |-> st.changes + 1],
                         a, Tail(bs), to)
         ELSE MirrorList(st, a, Tail(bs), to)

\* MirrorHero that also copies a into the counters of the heroes a counters
MirrorHero_BothWays(st, a) ==
    LET s1 == MirrorList(st, a, st.rec[a].counters.items, "countered_by")
        s2 == MirrorList(s1, a, s1.rec[a].countered_by.items, "counters")
    IN MirrorList(s2, a, s2.rec[a].counters.items, "counters")

\* lines 167-179 for one hero a
MirrorHero(st, a) ==
    LET s1 == MirrorList(st, a, st.rec[a].counters.items, "countered_by")
    IN MirrorList(s1, a, s1.rec[a].countered_by.items, "counters")

\* lines 167-179: the mirror pass, hero by hero in dict order
RECURSIVE MirrorPass(_, _)
MirrorPass(st, order) ==
    IF order = <<>> THEN st
    ELSE MirrorPass(MirrorHero(st, Head(order)), Tail(order))

\* ensure_bidirectional_relationships(data) raises (in ensure_fields)
reconcile_raises(d) == FirstBad(d.order, d.rec) # 0

\* what ensure_bidirectional_relationships(data) leaves in data and returns;
\* when it raises, the records before the bad one are already normalized
reconcile(d) ==
    IF reconcile_raises(d)
    THEN [data |-> NormalizeBefore(d, FirstBad(d.order, d.rec)), changes |-> 0]
    ELSE LET n == NormalizeBefore(d, Len(d.order) + 1)
             dropped == DropPass(n.rec)
             st == MirrorPass(dropped, d.order)
         IN [data |-> [n EXCEPT !.rec = st.rec], changes |-> st.changes]

---------------------------------------------------------------------------
(* The JSON file and save_data / load_data. *)

NoFile == [kind |-> "absent", content |-> EmptyData]

\* a complete dump of d
Snapshot(d) == [kind |-> "ok", content |-> d]

\* what open(DATA_FILE, "w") followed by an unfinished json.dump leaves: a
\* truncated file, empty or cut short, which json.load rejects
Truncated == [kind |-> "partial", content |-> EmptyData]

\* save_data(d): open(DATA_FILE, "w") truncates the file in place and
\* json.dump writes into it; when the process stops in between, the file
\* stays truncated
save_data(d, crash) == IF crash THEN Truncated ELSE Snapshot(d)

\* load_data(): {} when the file is missing, and {} as well when reading or
\* parsing it raises; ioFails is an OSError raised by open/read
load_data(f, ioFails) ==
    IF f.kind = "ok" /\ ~ioFails THEN f.content ELSE EmptyData

\* load_data() swallowed an exception: the file is there and was not read
load_failed(f, ioFails) == f.kind = "partial" \/ (f.kind = "ok" /\ ioFails)

---------------------------------------------------------------------------
(* Raw hero collections, as a hand-written or imported JSON file holds     *)
(* them: each record lists only the keys somebody wrote.                   *)

\* every insertion order of every subset of the keys
RECURSIVE Orders(_)
Orders(S) ==
    {<<>>} \cup UNION {{<<k>> \o o : o \in Orders(S \ {k})} : k \in S}

\* slot 4 * (i - 1) + j is field RelKeys[j] of the i-th hero
Slots(order) == 1..(4 * Len(order))

\* the relationship entries of a collection: a slot and a name each, listed slot by slot
EntryLists(order, max) ==
    {es \in UNION {[1..m -> Slots(order) \X Names] : m \in 0..max} :
        \A i \in 1..(Len(es) - 1) : es[i][1] <= es[i + 1][1]}

SlotValue(es, slot) ==
    LET sel == SelectSeq(es, LAMBDA e : e[1] = slot)
    IN IF sel = <<>> THEN Absent ELSE List([i \in DOMAIN sel |-> sel[i][2]])

RawHero(es, i) ==
    [EmptyHero EXCEPT !.counters = SlotValue(es, 4 * (i - 1) + 1),
                      !.countered_by = SlotValue(es, 4 * (i - 1) + 2),
                      !.ban_targets = SlotValue(es, 4 * (i - 1) + 3),
                      !.synergy = SlotValue(es, 4 * (i - 1) + 4)]

RawCollection(order, es) ==
    [EmptyData EXCEPT !.order = order,
                      !.rec = [k \in Range(order) |-> RawHero(es, IndexOf(order, k))]]

RawCollections(keys, max) ==
    UNION {{RawCollection(o, es) : es \in EntryLists(o, max)} : o \in Orders(keys)}

---------------------------------------------------------------------------
(* Handlers. *)

\* no hero
NoName == "-"

\* a handler reached its save_data(d) with nothing raised before: the file is
\* rewritten; when the process stops during the write the session is gone
Completes(name, d, crash) ==
    /\ file' = save_data(d, crash)
    /\ data' = IF crash THEN EmptyData ELSE d
    /\ pc' = IF crash THEN "down" ELSE name
    /\ err' = "none"

\* an exception left a handler uncaught: the script run ends there, the
\* session keeps the dataset as changed so far (d), nothing is saved
Aborts(name, d) ==
    /\ data' = d
    /\ pc' = name
    /\ err' = "exception"
    /\ UNCHANGED file

\* the handler did not call ensure_bidirectional_relationships
NoReconcile == pre' = EmptyData /\ changes' = 0

\* the handler took no name, lane or list from the user
NoArg == [name |-> NoName, lane |-> "", list |-> <<>>]

\* lines 460-461: a new session loads the file
Start(ioFails) ==
    /\ pc = "down"
    /\ data' = load_data(file, ioFails)
    /\ pc' = IF load_failed(file, ioFails) THEN "load_failed" ELSE "load"
    /\ err' = "none"
    /\ deleted' = NoName
    /\ arg' = NoArg
    /\ NoReconcile
    /\ UNCHANGED file

\* lines 482-484, the save button
SaveButton(crash) ==
    /\ pc # "down"
    /\ Completes("save", data, crash)
    /\ arg' = NoArg
    /\ deleted' = IF crash THEN NoName ELSE deleted
    /\ NoReconcile

\* lines 486-489, the "fix relationships" button: reconcile, save, report
FixButton(crash) ==
    /\ pc # "down"
    /\ pre' = data
    /\ arg' = NoArg
    /\ LET r == reconcile(data) IN
       IF reconcile_raises(data)
       THEN /\ Aborts("fix", r.data)
            /\ changes' = 0
            /\ UNCHANGED deleted
       ELSE /\ Completes("fix", r.data, crash)
            /\ changes' = r.changes
            /\ deleted' = IF crash THEN NoName ELSE deleted

\* lines 491-498, a JSON file is uploaded: it replaces the dataset and is saved
Import(up, crash) ==
    /\ pc # "down"
    /\ Completes("import", up, crash)
    /\ arg' = NoArg
    /\ deleted' = NoName
    /\ NoReconcile

\* lines 499-500, the uploaded file is no JSON: json.load raises, st.error
ImportInvalid ==
    /\ pc # "down"
    /\ pc' = "import"
    /\ err' = "import_failed"
    /\ arg' = NoArg
    /\ NoReconcile
    /\ UNCHANGED <<data, file, deleted>>

\* lines 651-652 for one record: hh[key] = [x for x in hh[key] if x != picked],
\* key by key from RelKeys[i] on; a missing key raises KeyError, a value that
\* is no list TypeError
RECURSIVE StripFrom(_, _, _)
StripFrom(hh, picked, i) ==
    IF i > Len(RelKeys) THEN [h |-> hh, raised |-> FALSE]
    ELSE IF hh[RelKeys[i]].kind # "list" THEN [h |-> hh, raised |-> TRUE]
         ELSE StripFrom([hh EXCEPT ![RelKeys[i]] =
                           List(SelectSeq(hh[RelKeys[i]].items, LAMBDA x : x # picked))],
                        picked, i + 1)

\* lines 650-652: only a dict that has the key "counters" is stripped
StripHero(hh, picked) ==
    IF hh.shape = "dict" /\ hh.counters.kind # "absent"
    THEN StripFrom(hh, picked, 1)
    ELSE [h |-> hh, raised |-> FALSE]

\* lines 649-652: record by record in dict order, up to the first that raises
RECURSIVE StripAll(_, _, _)
StripAll(rec, order, picked) ==
    IF order = <<>> THEN [rec |-> rec, raised |-> FALSE]
    ELSE LET s == StripHero(rec[Head(order)], picked)
             rec1 == [rec EXCEPT ![Head(order)] = s.h]
         IN IF s.raised THEN [rec |-> rec1, raised |-> TRUE]
            ELSE StripAll(rec1, Tail(order), picked)

\* lines 656-666 for one normalized composition
CascadeComp(e, picked) ==
    IF e.shape = "none" THEN e
    ELSE [e EXCEPT !.members = List(SelectSeq(e.members.items, LAMBDA x : x # picked)),
                   !.core = IF e.core = picked THEN "" ELSE e.core,
                   !.counters = List(SelectSeq(e.counters.items, LAMBDA x : x # picked))]

\* lines 653-668: the compositions are rewritten when one of them changed
CascadeComps(d, picked) ==
    LET comps == get_compositions(d)
        stripped == [c \in CompNames |-> CascadeComp(comps[c], picked)]
    IN IF stripped # comps THEN set_compositions(d, stripped) ELSE d

\* lines 578-579, 586-587: the edit panel of the picked hero is drawn, so its
\* buttons exist: the name is non-empty, ensure_fields returns, and the
\* main lane is one the select box offers
EditPanel(picked) ==
    /\ picked # ""
    /\ picked \in DOMAIN data.rec
    /\ ~ensure_fields_raises(data.rec[picked])
    /\ ensure_main_lane(data.rec[picked]) \in {""} \cup Range(LANE_CHOICES)

\* lines 644-671, the delete button of the picked hero
DeleteHero(picked, crash) ==
    /\ pc # "down"
    /\ EditPanel(picked)
    /\ arg' = [NoArg EXCEPT !.name = picked]
    /\ LET d1 == DelKey(data, picked)
           s == StripAll(d1.rec, d1.order, picked)
           d2 == [d1 EXCEPT !.rec = s.rec]
           d3 == CascadeComps(d2, picked)
           r == reconcile(d3)
       IN IF s.raised \/ get_compositions_raises(d2)
          THEN /\ Aborts("delete", d2)
               /\ deleted' = picked
               /\ NoReconcile
          ELSE IF reconcile_raises(d3)
          THEN /\ Aborts("delete", r.data)
               /\ deleted' = picked
               /\ pre' = d3
               /\ changes' = 0
          ELSE /\ Completes("delete", r.data, crash)
               /\ deleted' = IF crash THEN NoName ELSE picked
               /\ pre' = d3
               /\ changes' = r.changes

---------------------------------------------------------------------------
(* Handlers that take text from the user.  A text input is modelled by the *)
(* names it splits into at commas and blanks.                              *)

\* strip that leaves blanks in place
strip_KeepsBlanks(name) == name

\* name.strip() for the names typed here: " " is a name of blanks only
strip(name) == IF name = " " THEN "" ELSE name

\* norm_list(s): the names of the text, without repetitions
norm_list(tokens) == dedupe(tokens)

\* what the user types into a counters or countered_by input
TypedLists == {<<>>, <<"A", "Z", "A">>}

\* what the user types as the name of a new hero
TypedHeroNames == {"", " ", "B", "__compositions__"}

\* what the user types as the name of a new composition
TypedCompNames == {"", " ", "c1"}

\* k.startswith("__"): the key is skipped by reconcile and by the hero lists
IsGlobalKey(k) == k = "__compositions__"

\* a hero record stored under "__compositions__": a mapping whose keys are
\* the field names, so that none of the compositions is in it any more
HeroAsComps == [kind |-> "hero", ent |-> NoComps.ent]

\* data[name] = h
PutHero(d, name, h) ==
    IF IsGlobalKey(name) THEN [d EXCEPT !.comps = HeroAsComps] ELSE SetKey(d, name, h)

\* lines 702, 721-732: the record the add form builds, no lane chosen
NewHero(counters, countered_by) ==
    [shape |-> "dict",
     counters |-> List(norm_list(counters)),
     countered_by |-> List(norm_list(countered_by)),
     ban_targets |-> List(<<>>), synergy |-> List(<<>>),
     lanes |-> List(<<>>), main_lane |-> "",
     lane_tiers |-> [kind |-> "dict",
                     map |-> [l \in LaneKeys |-> IF Contains(LANE_CHOICES, l) THEN "" ELSE NoKey]]]

\* lines 714-735, the add button
AddHero(name, counters, countered_by, crash) ==
    /\ pc # "down"
    /\ arg' = [name |-> name, lane |-> "", list |-> counters]
    /\ IF strip(name) = ""
       THEN /\ pc' = "add"
            /\ err' = "validation"
            /\ NoReconcile
            /\ UNCHANGED <<data, file, deleted>>
       ELSE LET d1 == PutHero(data, name, NewHero(counters, countered_by))
                r == reconcile(d1)
            IN /\ pre' = d1
               /\ IF reconcile_raises(d1)
                  THEN /\ Aborts("add", r.data)
                       /\ changes' = 0
                       /\ deleted' = IF name = deleted THEN NoName ELSE deleted
                  ELSE /\ Completes("add", r.data, crash)
                       /\ changes' = r.changes
                       /\ deleted' = IF crash \/ name = deleted THEN NoName ELSE deleted

\* lines 586-594, 597, 616-618, 626-635: the record the edit form builds from
\* h = ensure_fields(data[picked]) when only the counters input is changed;
\* the countered_by input holds the names of h["countered_by"]
EditedHero(h, counters) ==
    LET others == SelectSeq(h.lanes.items, LAMBDA l : l # "" /\ l # h.main_lane)
    IN [h EXCEPT !.counters = List(norm_list(counters)),
                 !.countered_by = List(norm_list(h.countered_by.items)),
                 !.lanes = List(IF h.main_lane = "" THEN others ELSE <<h.main_lane>> \o others)]

\* lines 625-642, the update button of the picked hero
UpdateHero(picked, counters, crash) ==
    /\ pc # "down"
    /\ EditPanel(picked)
    /\ arg' = [name |-> picked, lane |-> "", list |-> counters]
    /\ LET d1 == SetKey(data, picked,
                        EditedHero(ensure_fields(data.rec[picked]), counters))
           r == reconcile(d1)
       IN /\ pre' = d1
          /\ IF reconcile_raises(d1)
             THEN /\ Aborts("update", r.data)
                  /\ changes' = 0
                  /\ UNCHANGED deleted
             ELSE /\ Completes("update", r.data, crash)
                  /\ changes' = r.changes
                  /\ deleted' = IF crash THEN NoName ELSE deleted

\* lines 740-753, the create button of the compositions tab
CreateComposition(new_comp, crash) ==
    /\ pc # "down"
    /\ ~get_compositions_raises(data)
    /\ arg' = [NoArg EXCEPT !.name = new_comp]
    /\ NoReconcile
    /\ LET comps == get_compositions(data) IN
       IF strip(new_comp) = ""
       THEN /\ pc' = "comp_create"
            /\ err' = "validation"
            /\ UNCHANGED <<data, file, deleted>>
       ELSE IF comps[new_comp].shape # "none"
       THEN /\ pc' = "comp_create"
            /\ err' = "duplicate"
            /\ UNCHANGED <<data, file, deleted>>
       ELSE /\ Completes("comp_create",
                         set_compositions(data, [comps EXCEPT ![new_comp] = EmptyComp]), crash)
            /\ deleted' = IF crash THEN NoName ELSE deleted

---------------------------------------------------------------------------
(* The compositions sheet. *)

\* the compositions the rows of the sheet give: none, or one
SheetComps ==
    {NoComps.ent,
     [NoComps.ent EXCEPT !["c2"] = [shape |-> "dict", members |-> List(<<"A">>),
                                   core |-> "A", counters |-> List(<<>>)]]}

\* lines 269-300: the compositions of the dataset are replaced by those of
\* the sheet
gsheet_pull_compositions(d, sheet) == set_compositions(d, sheet)

\* the number gsheet_pull_compositions returns: len(comps)
pulled(sheet) == Cardinality({c \in CompNames : sheet[c].shape # "none"})

\* lines 469-477, in a script run with "startup_pull" checked: the sheet is
\* read into the dataset, which is saved when the sheet held a composition;
\* reachable = FALSE: reading the sheet raised, a warning is shown
StartupPull(reachable, sheet, crash) ==
    /\ pc # "down"
    /\ arg' = NoArg
    /\ NoReconcile
    /\ IF ~reachable
       THEN /\ pc' = "pull"
            /\ err' = "warning"
            /\ UNCHANGED <<data, file, deleted>>
       ELSE IF pulled(sheet) = 0
       THEN /\ data' = gsheet_pull_compositions(data, sheet)
            /\ pc' = "pull"
            /\ err' = "none"
            /\ deleted' = NoName
            /\ UNCHANGED file
       ELSE /\ Completes("pull", gsheet_pull_compositions(data, sheet), crash)
            /\ deleted' = NoName

\* lines 451-457, the "load from sheet" button: pull, then save
PullButton(reachable, sheet, crash) ==
    /\ pc # "down"
    /\ arg' = NoArg
    /\ NoReconcile
    /\ IF ~reachable
       THEN /\ pc' = "pull_button"
            /\ err' = "pull_failed"
            /\ UNCHANGED <<data, file, deleted>>
       ELSE /\ Completes("pull_button", gsheet_pull_compositions(data, sheet), crash)
            /\ deleted' = NoName

---------------------------------------------------------------------------
(* The reconciler alone: every raw collection within the bounds is in      *)
(* memory, as load_data returned it, and the fix button is pressed.        *)

InitReconcile ==
    /\ data \in RawCollections(HeroKeys, MaxEntries)
    /\ file = Snapshot(data)
    /\ pc = "load"
    /\ pre = EmptyData
    /\ changes = 0
    /\ err = "none"
    /\ deleted = NoName
    /\ arg = NoArg

Reconcile == FixButton(FALSE)

NextReconcile == Reconcile

SpecReconcile == InitReconcile /\ [][NextReconcile]_vars

---------------------------------------------------------------------------
(* Claims about the reconciler. *)

\* a reconcile has just returned (it did not raise)
Reconciled == pc = "fix" /\ err = "none"

Heroes(d) == DOMAIN d.rec

Rel(d, a, key) == Range(d.rec[a][key].items)

\* C1: after ensure_bidirectional_relationships returns, for every two
\* distinct heroes A and B, B is in A's counters iff A is in B's countered_by
Symmetric(d) ==
    \A a \in Heroes(d) : \A b \in Heroes(d) \ {a} :
        b \in Rel(d, a, "counters") <=> a \in Rel(d, b, "countered_by")

C1_Symmetry == Reconciled => Symmetric(data)

\* C2: a reconcile run on the result of a reconcile returns zero and leaves
\* the collection as it was
C2_Idempotent ==
    [][(Reconciled /\ Reconciled') => (changes' = 0 /\ data' = data)]_vars

\* C3: after reconcile returns, every name in counters, countered_by,
\* ban_targets and synergy of every hero is the key of a record and is not
\* the hero itself
Integral(d) ==
    \A a \in Heroes(d) : \A i \in DOMAIN RelKeys :
        /\ Rel(d, a, RelKeys[i]) \subseteq Heroes(d)
        /\ a \notin Rel(d, a, RelKeys[i])

C3_Integrity == Reconciled => Integral(data)

\* C3's case: the collection reconciled held a dangling reference and a
\* self reference, and reconcile returned
C3_Witness ==
    /\ Reconciled
    /\ \E a \in Heroes(pre) : \E i \in DOMAIN RelKeys : Dangling \in Rel(pre, a, RelKeys[i])
    /\ \E a \in Heroes(pre) : \E i \in DOMAIN RelKeys : a \in Rel(pre, a, RelKeys[i])

\* the entries of xs that are no hero key or are the hero itself
NumBad(xs, names, name) ==
    Cardinality({i \in DOMAIN xs : xs[i] \notin names \/ xs[i] = name})

\* the number of dangling and self references in the collection d
NumDropped(d) ==
    SumOver([a \in Heroes(d) |->
               SumOver([i \in DOMAIN RelKeys |->
                          NumBad(ItemsOf(d.rec[a][RelKeys[i]]), Heroes(d), a)],
                       DOMAIN RelKeys)],
            Heroes(d))

\* the number of names in counters and countered_by of after that before lacks
NumAdded(before, after) ==
    SumOver([a \in Heroes(after) |->
               Cardinality(Rel(after, a, "counters") \ Rel(before, a, "counters"))
               + Cardinality(Rel(after, a, "countered_by") \ Rel(before, a, "countered_by"))],
            Heroes(after))

\* C8: the number reconcile returns is the number of entries it dropped
\* (dangling or self references) plus the number of mirror entries it added
C8_CountsEdits ==
    Reconciled => changes = NumDropped(pre) + NumAdded(pre, data)

\* xs in the canonical order of the names, duplicates kept
RECURSIVE SortNames(_)
SortNames(xs) ==
    IF xs = <<>> THEN <<>>
    ELSE LET m == CHOOSE x \in Range(xs) : \A y \in Range(xs) : NameIndex[x] <= NameIndex[y]
         IN SelectSeq(xs, LAMBDA y : y = m) \o SortNames(SelectSeq(xs, LAMBDA y : y # m))

SortValue(v) == IF v.kind = "list" THEN List(SortNames(v.items)) ELSE v

\* the same records as d, inserted in the canonical order of their keys and
\* with every relationship list in the canonical order
Canonical(d) ==
    [d EXCEPT !.order = SortNames(d.order),
              !.rec = [k \in DOMAIN d.rec |->
                         [d.rec[k] EXCEPT !.counters = SortValue(@),
                                          !.countered_by = SortValue(@),
                                          !.ban_targets = SortValue(@),
                                          !.synergy = SortValue(@)]]]

\* the relationship sets of every hero
RelSets(d) ==
    [a \in Heroes(d) |-> [i \in DOMAIN RelKeys |-> Rel(d, a, RelKeys[i])]]

\* C9: reconcile gives the same relationship sets and the same change count
\* as it gives on the same records in the canonical insertion and list
\* order; so any two orderings of the same records agree
C9_OrderIndependent ==
    Reconciled =>
      /\ RelSets(data) = RelSets(reconcile(Canonical(pre)).data)
      /\ changes = reconcile(Canonical(pre)).changes

\* C9's case: a collection whose keys and lists are not in the canonical
\* order was reconciled, with drops and with mirror entries added
C9_Witness ==
    /\ Reconciled
    /\ pre.order # Canonical(pre).order
    /\ pre.rec # Canonical(pre).rec
    /\ NumDropped(pre) > 0
    /\ NumAdded(pre, data) > 0

---------------------------------------------------------------------------
(* Views: the parts of the script that only read the dataset. *)

\* line 740, the compositions tab: comps = get_compositions(data)
ViewCompositions ==
    /\ pc # "down"
    /\ pc' = "comps"
    /\ err' = IF get_compositions_raises(data) THEN "exception" ELSE "none"
    /\ arg' = NoArg
    /\ NoReconcile
    /\ UNCHANGED <<data, file, deleted>>

\* lines 903-915, the library tab: h = ensure_fields(data[name]) for every
\* hero in the order of the sorted keys, up to the first record it raises
\* on; h is only displayed, but the call may have written into data[name]
ViewLibrary ==
    /\ pc # "down"
    /\ pc' = "library"
    /\ LET order == sorted(data.order)
           n == FirstBad(order, data.rec)
       IN /\ data' = [data EXCEPT !.rec = [k \in DOMAIN data.rec |->
                         IF n = 0 \/ IndexOf(order, k) <= n
                         THEN ensure_fields_touch(data.rec[k])
                         ELSE data.rec[k]]]
          /\ err' = IF n = 0 THEN "none" ELSE "exception"
    /\ arg' = NoArg
    /\ NoReconcile
    /\ UNCHANGED <<file, deleted>>

---------------------------------------------------------------------------
(* The normalizers alone: one stored hero record and one stored            *)
(* composition entry of every shape within the bounds.                     *)

Null == [kind |-> "null", items |-> <<>>]

Scalar == [kind |-> "scalar", items |-> <<>>]

\* values of counters and countered_by in a stored record
RawRelValues == {Absent, List(<<>>), List(<<"B">>), Null, Scalar}

\* values of ban_targets and synergy in a stored record
RawAuxValues == {Absent, List(<<"B">>), Null}

RawLanesValues ==
    {Absent, List(<<>>), List(<<"mid">>), List(<<UnknownLane>>),
     List(<<"mid", "caesar">>), List(<<UnknownLane, "mid">>), Null, Scalar}

RawMainLanes == {"", "mid", "caesar", UnknownLane}

RawLaneTiers ==
    {[kind |-> "absent", map |-> NoTiers],
     [kind |-> "null", map |-> NoTiers],
     [kind |-> "scalar", map |-> NoTiers],
     [kind |-> "dict", map |-> NoTiers],
     [kind |-> "dict", map |-> [NoTiers EXCEPT !["mid"] = "T0"]],
     [kind |-> "dict", map |-> [NoTiers EXCEPT ![UnknownLane] = "T1"]],
     [kind |-> "dict", map |-> [l \in LaneKeys |-> IF l = UnknownLane THEN NoKey ELSE "T1"]]}

\* a stored value that is no mapping: a list, a string, a number
NotADict == [EmptyHero EXCEPT !.shape = "other"]

RawHeroRecords ==
    {NotADict} \cup
    [shape : {"dict"},
     counters : RawRelValues, countered_by : RawRelValues,
     ban_targets : RawAuxValues, synergy : RawAuxValues,
     lanes : RawLanesValues, main_lane : RawMainLanes,
     lane_tiers : RawLaneTiers]

RawCompLists == {Absent, List(<<>>), List(<<"B", "A", "B">>), Null, Scalar}

\* a legacy list-shaped entry, dict entries, and a value that is neither
RawCompEntries ==
    {[shape |-> "list", members |-> List(xs), core |-> "", counters |-> Absent] :
        xs \in {<<>>, <<"B", "A", "B">>}}
    \cup [shape : {"dict"}, members : RawCompLists, core : {"", "A"}, counters : RawCompLists]
    \cup {[shape |-> "other", members |-> Absent, core |-> "", counters |-> Absent]}

RawComps ==
    {NoComps, [kind |-> "other", ent |-> NoComps.ent]}
    \cup {[kind |-> "dict", ent |-> [NoComps.ent EXCEPT !["c1"] = e]] : e \in RawCompEntries}

InitNorm ==
    /\ \/ \E h \in RawHeroRecords :
            data = [EmptyData EXCEPT !.order = <<"A">>, !.rec = [k \in {"A"} |-> h]]
       \/ \E c \in RawComps :
            data = [EmptyData EXCEPT !.comps = c]
    /\ file = Snapshot(data)
    /\ pc = "load"
    /\ pre = EmptyData
    /\ changes = 0
    /\ err = "none"
    /\ deleted = NoName
    /\ arg = NoArg

NextNorm ==
    \/ Reconcile
    \/ ViewCompositions
    \/ ViewLibrary

SpecNorm == InitNorm /\ [][NextNorm]_vars

\* C7: ensure_fields and _normalize_comp_entry return a record for every
\* input shape: no run of a handler that calls them ends in an exception
C7_NormalizersTotal ==
    pc \in {"fix", "comps"} => err = "none"

---------------------------------------------------------------------------
(* The application: a session starts from the file, and the buttons are    *)
(* pressed in any order; the process may stop while it writes the file.    *)

\* the largest number of relationship entries in a file or an upload
MaxFileEntries == 1

FileKeys == {"A", "B"}

\* values under "__compositions__" in a file
FileComps ==
    {NoComps}
    \cup {[kind |-> "dict", ent |-> [NoComps.ent EXCEPT !["c1"] = e]] :
            e \in {[shape |-> "list", members |-> List(<<"B", "A">>), core |-> "",
                    counters |-> Absent],
                   [shape |-> "dict", members |-> List(<<"A">>), core |-> "A",
                    counters |-> List(<<"A">>)],
                   [shape |-> "dict", members |-> Absent, core |-> "B",
                    counters |-> List(<<"B", "A">>)]}}

FileDatasets ==
    {[h EXCEPT !.comps = c] : h \in RawCollections(FileKeys, MaxFileEntries), c \in FileComps}

\* the datasets a user uploads: heroes A and B, the entries in A's record
Uploads == {RawCollection(<<"A", "B">>, es) : es \in EntryLists(<<"A">>, MaxFileEntries)}

Init ==
    /\ file \in {NoFile} \cup {Snapshot(d) : d \in FileDatasets}
    /\ data = EmptyData
    /\ pc = "down"
    /\ pre = EmptyData
    /\ changes = 0
    /\ err = "none"
    /\ deleted = NoName
    /\ arg = NoArg

Next ==
    \/ \E ioFails \in BOOLEAN : Start(ioFails)
    \/ \E crash \in BOOLEAN : SaveButton(crash)
    \/ \E crash \in BOOLEAN : FixButton(crash)
    \/ \E up \in Uploads, crash \in BOOLEAN : Import(up, crash)
    \/ ImportInvalid
    \/ \E picked \in FileKeys, crash \in BOOLEAN : DeleteHero(picked, crash)
    \/ ViewCompositions

Spec == Init /\ [][Next]_vars

---------------------------------------------------------------------------
(* The editing session: a session starts from a file with heroes A and B,  *)
(* compositions and a ban list, and the user adds and updates heroes,      *)
(* creates compositions and pulls the sheet.                               *)

\* the relationship entries of the files: none, or A counters B on both sides
EditEntries == {<<>>, <<<<1, "B">>, <<6, "A">>>>}

\* values under "__ban_list__" in a file
FileBans == {Absent, List(<<"B", "A">>)}

EditDatasets ==
    {[RawCollection(<<"A", "B">>, es) EXCEPT !.comps = c, !.bans = b] :
        es \in EditEntries, c \in FileComps, b \in FileBans}

InitEdit ==
    /\ file \in {NoFile} \cup {Snapshot(d) : d \in EditDatasets}
    /\ data = EmptyData
    /\ pc = "down"
    /\ pre = EmptyData
    /\ changes = 0
    /\ err = "none"
    /\ deleted = NoName
    /\ arg = NoArg

NextEdit ==
    \/ Start(FALSE)
    \/ \E crash \in BOOLEAN : FixButton(crash)
    \/ \E name \in TypedHeroNames, counters \in TypedLists, countered_by \in TypedLists,
          crash \in BOOLEAN : AddHero(name, counters, countered_by, crash)
    \/ \E picked \in FileKeys, counters \in TypedLists, crash \in BOOLEAN :
          UpdateHero(picked, counters, crash)
    \/ \E new_comp \in TypedCompNames, crash \in BOOLEAN : CreateComposition(new_comp, crash)
    \/ \E reachable \in BOOLEAN, sheet \in SheetComps, crash \in BOOLEAN :
          StartupPull(reachable, sheet, crash)
    \/ \E reachable \in BOOLEAN, sheet \in SheetComps, crash \in BOOLEAN :
          PullButton(reachable, sheet, crash)

SpecEdit == InitEdit /\ [][NextEdit]_vars

---------------------------------------------------------------------------
(* Claims about the application. *)

\* x is named in a relationship field of some hero of d
NamedByHero(d, x) ==
    \E a \in Heroes(d) : \E i \in DOMAIN RelKeys : x \in Rel(d, a, RelKeys[i])

\* x is a member, the core or a counter of some composition of d
NamedByComp(d, x) ==
    /\ d.comps.kind = "dict"
    /\ \E c \in CompNames :
         LET e == d.comps.ent[c] IN
         /\ e.shape \in {"list", "dict"}
         /\ \/ x \in Range(e.members.items)
            \/ x \in Range(e.counters.items)
            \/ e.core = x

\* C4: once hero X was deleted and a reconcile has returned, no hero names X
\* in counters, countered_by, ban_targets or synergy, and no composition
\* names X in members, core or counters
C4_DeleteCascades ==
    (deleted # NoName /\ pc \in {"delete", "fix"} /\ err = "none") =>
        (~NamedByHero(data, deleted) /\ ~NamedByComp(data, deleted))

\* the same for a delete handler that ran to its end
C4_CompletedDeleteCascades ==
    (pc = "delete" /\ err = "none") =>
        (~NamedByHero(data, deleted) /\ ~NamedByComp(data, deleted))

\* C5: whenever the process stops during save_data, the file holds a complete
\* snapshot, the previous or the new one: it is never partially written
C5_AtomicSave == file.kind # "partial"

\* C6: a read of the file that fails is surfaced to the caller
C6_ReadFailureSurfaced == pc = "load_failed" => err # "none"

\* C10: once an import has completed, the in-memory dataset and the file
\* hold the same dataset and it satisfies symmetry and referential integrity
C10_ImportReconciles ==
    (pc = "import" /\ err = "none") =>
        (file = Snapshot(data) /\ Symmetric(data) /\ Integral(data))

---------------------------------------------------------------------------
(* The ban tab: the stored ban lists of every shape within the bounds, and *)
(* the add and remove buttons of the global list and of a lane.            *)

\* what the user types into the inputs of the ban tab
BanTexts == {<<>>, <<"A">>, <<"B", "A", "B">>}

\* the lanes the user selects
BanLanes == {"mid", "jungle"}

\* values under "__ban_list__"
RawBans == {Absent, List(<<>>), List(<<"B", "A", "", "B">>), Scalar}

\* values under "__lane_bans__"
RawLaneBans ==
    {NoLaneBans,
     [kind |-> "other", map |-> NoLaneBans.map],
     [kind |-> "dict", map |-> [NoLaneBans.map EXCEPT !["mid"] = List(<<"B", "", "B">>),
                                                      !["jungle"] = List(<<"A">>),
                                                      !["roam"] = List(<<"Z">>),
                                                      ![UnknownLane] = List(<<"Z">>)]],
     [kind |-> "dict", map |-> [NoLaneBans.map EXCEPT !["mid"] = Null]]}

\* lines 835, 844-848: add to the global list
BanAdd(extra, crash) ==
    /\ pc # "down"
    /\ LET new_list == get_global_bans(data) \o norm_list(extra) IN
       /\ arg' = [NoArg EXCEPT !.list = new_list]
       /\ Completes("ban_add", set_global_bans(data, new_list), crash)
    /\ deleted' = IF crash THEN NoName ELSE deleted
    /\ NoReconcile

\* lines 835, 852-857: remove from the global list
BanRemove(remove_text, crash) ==
    /\ pc # "down"
    /\ LET to_remove == Range(norm_list(remove_text))
           remain == SelectSeq(get_global_bans(data), LAMBDA b : b \notin to_remove)
       IN /\ arg' = [NoArg EXCEPT !.list = remain]
          /\ Completes("ban_remove", set_global_bans(data, remain), crash)
    /\ deleted' = IF crash THEN NoName ELSE deleted
    /\ NoReconcile

\* lines 861-863, 873-877: add to the list of the selected lane
LaneBanAdd(lane_sel, extra, crash) ==
    /\ pc # "down"
    /\ ~get_lane_bans_raises(data)
    /\ LET lane_bans == get_lane_bans(data)
           new_list == sorted(dedupe(lane_bans[lane_sel] \o norm_list(extra)))
       IN /\ arg' = [NoArg EXCEPT !.lane = lane_sel, !.list = new_list]
          /\ Completes("lane_ban_add",
                       set_lane_bans(data, [lane_bans EXCEPT ![lane_sel] = new_list]), crash)
    /\ deleted' = IF crash THEN NoName ELSE deleted
    /\ NoReconcile

\* lines 861-863, 881-886: remove from the list of the selected lane
LaneBanRemove(lane_sel, rm_text, crash) ==
    /\ pc # "down"
    /\ ~get_lane_bans_raises(data)
    /\ LET lane_bans == get_lane_bans(data)
           to_remove == Range(norm_list(rm_text))
           remain == SelectSeq(lane_bans[lane_sel], LAMBDA b : b \notin to_remove)
       IN /\ arg' = [NoArg EXCEPT !.lane = lane_sel, !.list = remain]
          /\ Completes("lane_ban_remove",
                       set_lane_bans(data, [lane_bans EXCEPT ![lane_sel] = remain]), crash)
    /\ deleted' = IF crash THEN NoName ELSE deleted
    /\ NoReconcile

InitBans ==
    /\ \E b \in RawBans, lb \in RawLaneBans :
          data = [EmptyData EXCEPT !.bans = b, !.lane_bans = lb]
    /\ file = Snapshot(data)
    /\ pc = "load"
    /\ pre = EmptyData
    /\ changes = 0
    /\ err = "none"
    /\ deleted = NoName
    /\ arg = NoArg

NextBans ==
    \/ \E extra \in BanTexts : BanAdd(extra, FALSE)
    \/ \E remove_text \in BanTexts : BanRemove(remove_text, FALSE)
    \/ \E lane_sel \in BanLanes, extra \in BanTexts : LaneBanAdd(lane_sel, extra, FALSE)
    \/ \E lane_sel \in BanLanes, rm_text \in BanTexts : LaneBanRemove(lane_sel, rm_text, FALSE)

SpecBans == InitBans /\ [][NextBans]_vars

\* the names of a list: its distinct non-empty entries
NameSet(xs) == Range(xs) \ {""}

\* xs holds exactly the names of given, each once
HoldsExactly(xs, given) ==
    /\ Range(xs) = NameSet(given)
    /\ Cardinality(Range(xs)) = Len(xs)

\* the ban set of lane l in d
LaneBanSet(d, l) ==
    IF d.lane_bans.kind = "dict" THEN NameSet(ItemsOf(d.lane_bans.map[l])) ELSE {}

\* C16: after set_global_bans(L) the stored global list holds exactly the
\* distinct non-empty names of L, whatever was stored; after the list of one
\* lane is set, that lane holds exactly the distinct non-empty names given,
\* the ban set of every other lane is as before and so is the global list
C16_BansReplaced ==
    [][/\ pc' \in {"ban_add", "ban_remove"} =>
            /\ data'.bans.kind = "list"
            /\ HoldsExactly(data'.bans.items, arg'.list)
       /\ pc' \in {"lane_ban_add", "lane_ban_remove"} =>
            /\ data'.lane_bans.kind = "dict"
            /\ data'.lane_bans.map[arg'.lane].kind = "list"
            /\ HoldsExactly(data'.lane_bans.map[arg'.lane].items, arg'.list)
            /\ \A l \in Range(LANE_CHOICES) \ {arg'.lane} :
                  LaneBanSet(data', l) = LaneBanSet(data, l)
            /\ data'.bans = data.bans]_vars

\* C16's case: names were removed from the list of one lane while another
\* lane and the global list held names, and the list given held a repeated
\* name or an empty one
C16_Witness ==
    /\ pc = "lane_ban_remove"
    /\ arg.list # <<>>
    /\ ~HoldsExactly(arg.list, arg.list)
    /\ \E l \in Range(LANE_CHOICES) \ {arg.lane} : LaneBanSet(data, l) # {}
    /\ NameSet(get_global_bans(data)) # {}

---------------------------------------------------------------------------
(* Claims about the records in the dataset. *)

\* every hero record of d is a mapping whose lane_tiers has an entry for
\* every lane of LANE_CHOICES
LaneTiersComplete(d) ==
    \A a \in Heroes(d) :
        /\ d.rec[a].shape = "dict"
        /\ d.rec[a].lane_tiers.kind = "dict"
        /\ \A i \in DOMAIN LANE_CHOICES : d.rec[a].lane_tiers.map[LANE_CHOICES[i]] # NoKey

\* C11: in every state of a session, from the load on, every hero record has
\* a lane_tiers entry for every known lane
C11_LaneTiersComplete == pc # "down" => LaneTiersComplete(data)

\* main_lane of every hero record of d is empty or one of the record's lanes
MainLaneInLanes(d) ==
    \A a \in Heroes(d) :
        d.rec[a].main_lane = "" \/ d.rec[a].main_lane \in Range(ItemsOf(d.rec[a].lanes))

\* C12: in every record ensure_fields returned (every record after a
\* reconcile), main_lane is empty or a member of lanes
C12_MainLaneMember == Reconciled => MainLaneInLanes(data)

---------------------------------------------------------------------------
(* Claims about the handlers. *)

\* the handlers that change the dataset
Mutators == {"add", "update", "delete", "import", "comp_create", "pull", "pull_button"}

\* C13: when a handler that changes the dataset has run to its end, the file
\* holds a complete snapshot of the in-memory dataset
C13_FlushedAfterMutation ==
    (pc \in Mutators /\ err = "none") => file = Snapshot(data)

\* the same for the handlers other than the pull at startup
C13_ButtonsFlush ==
    (pc \in Mutators \ {"pull"} /\ err = "none") => file = Snapshot(data)

\* names that are empty or blanks only
BlankNames == {"", " "}

\* C14: adding a hero or creating a composition under an empty or blank name
\* reports an error and leaves the dataset and the file as they were
C14_EmptyNameRejected ==
    [][(pc' \in {"add", "comp_create"} /\ arg'.name \in BlankNames) =>
          (err' # "none" /\ data' = data /\ file' = file)]_vars

\* C14's case: a blank hero name was typed into the add form of a session
\* that holds heroes, and the add button was pressed
C14_Witness ==
    /\ pc = "add"
    /\ arg.name = " "
    /\ err = "validation"
    /\ Heroes(data) # {}

\* C17: after reconcile returns, B is in A's counters only if B was in A's
\* counters or A was in B's countered_by before, likewise for countered_by,
\* and ban_targets and synergy hold no name they did not hold before
C17_NoInvention ==
    Reconciled =>
      \A a \in Heroes(data) :
        /\ \A b \in Rel(data, a, "counters") :
              \/ b \in Rel(pre, a, "counters")
              \/ b \in Heroes(pre) /\ a \in Rel(pre, b, "countered_by")
        /\ \A b \in Rel(data, a, "countered_by") :
              \/ b \in Rel(pre, a, "countered_by")
              \/ b \in Heroes(pre) /\ a \in Rel(pre, b, "counters")
        /\ Rel(data, a, "ban_targets") \subseteq Rel(pre, a, "ban_targets")
        /\ Rel(data, a, "synergy") \subseteq Rel(pre, a, "synergy")

\* C17's case: reconcile added a mirror entry for a pair A counters B, left
\* the opposite direction (B counters A) out, and kept a synergy or
\* ban_targets entry
C17_Witness ==
    /\ Reconciled
    /\ NumAdded(pre, data) > 0
    /\ \E a \in Heroes(data) : \E b \in Heroes(data) \ {a} :
         /\ b \in Rel(data, a, "counters")
         /\ a \notin Rel(data, b, "counters")
    /\ \E a \in Heroes(data) : Rel(data, a, "synergy") \cup Rel(data, a, "ban_targets") # {}

\* C18: when hero A is updated with a counters list without B, where A had B
\* in counters and B had A in countered_by, then after the update handler ran
\* to its end B is not in A's counters and A is not in B's countered_by
C18_RemovalTakesEffect ==
    [][(pc' = "update" /\ err' = "none") =>
          \A b \in Heroes(data) \ {arg'.name} :
             (/\ b \in Rel(data, arg'.name, "counters")
              /\ arg'.name \in Rel(data, b, "countered_by")
              /\ ~Contains(arg'.list, b))
             => (/\ b \notin Rel(data', arg'.name, "counters")
                 /\ arg'.name \notin Rel(data', b, "countered_by"))]_vars

\* C19: a hero handler that ran to its end (add, update, reconcile) leaves
\* the compositions, the ban list and the lane bans as they were, and the
\* record added under an accepted name is one of the heroes
C19_HeroOpsKeepBookkeeping ==
    [][(pc' \in {"add", "update", "fix"} /\ err' = "none") =>
          /\ data'.comps = data.comps
          /\ data'.bans = data.bans
          /\ data'.lane_bans = data.lane_bans
          /\ pc' = "add" => arg'.name \in Heroes(data')]_vars

\* C20: a run of the delete handler either goes to its end or leaves the
\* in-memory dataset as it was
C20_DeleteAllOrNothing ==
    [][pc' = "delete" => (err' = "none" \/ data' = data)]_vars

\* C15: a call of ensure_fields on a stored record, as made to display the
\* library, leaves the record (its lane_tiers mapping and its lists) as it was
C15_NormalizerPure ==
    [][pc' = "library" => data' = data]_vars

====
